---- MODULE Spec2Model ----
(***************************************************************************)
(* Model of InitWatcher<T> (src/modules/desktop/electron/libs/initialize.ts)*)
(* a single-flight, retrying, resettable initializer built on promises.    *)
(*                                                                         *)
(* An "attempt" is one call of retryFunction(initFunction, 3) made by      *)
(* initialize() together with the promise chained on it by .then/.catch.   *)
(* Attempts are numbered in the order they are started, calls of           *)
(* initialize()/observe() in the order they are made.  The handle 0 is     *)
(* `undefined`; the handle a > 0 is the promise chained on attempt a.      *)
(* The settling of a producer call and the reactions it triggers inside    *)
(* the object (the continuation of retryFunction, then the .then or .catch *)
(* callback) touch nothing any other operation reads in between, so they   *)
(* are one step.  The resumption of each awaiting caller is a later job    *)
(* and a separate step that other calls may interleave with.               *)
(***************************************************************************)
EXTENDS Integers, Sequences, FiniteSets, TLC

\* ---- bounds of the model ----
MaxAttempts == 3
MaxCalls == 3
NumValues == 1
NumErrors == 2

\* ---- program constants ----
Retries == 3

Attempts == 1..MaxAttempts
Calls == 1..MaxCalls
Values == 1..NumValues
Errors == 1..NumErrors

InitStates == {"NOT_INITIALIZED", "PENDING", "INITIALIZED"}

Pending == <<"pending">>
Undefined == <<"undefined">>
Fulfilled(v) == <<"ok", v>>
Rejected(e) == <<"err", e>>

IsFulfilled(p) == p[1] = "ok"
IsRejected(p) == p[1] = "err"
IsSettled(p) == p[1] # "pending"

VARIABLES
    initState,              \* this.initState
    initializationPromise,  \* this.initializationPromise: 0 or an attempt
    nAttempts,              \* attempts started so far
    currentAttempt,         \* attempt -> number of the producer invocation
                            \*   its retryFunction awaits, 0 when none
    chained,                \* attempt -> state of the .then/.catch promise
    nCalls,                 \* calls of initialize()/observe() made so far
    handle,                 \* call -> the handle initialize() returned to it
    result,                 \* call -> what the caller's await produced
    resetMark,              \* attempts started before the latest reset()
    owed,                   \* why the next call is expected to start afresh
    io,                     \* what the step just taken read or returned
    binExists               \* fs.existsSync(<teaCliPrefix>/bin/tea)

vars == <<initState, initializationPromise, nAttempts, currentAttempt, chained,
          nCalls, handle, result, resetMark, owed, io, binExists>>

\* values of io: nothing to report, a call of reset(), the state getState()
\* returned, invocation k of attempt a resolved, an invocation of attempt a
\* raised e, a call of initializeTeaCli() and whether it called reset()
Quiet == <<"none">>
ResetDone == <<"reset">>
Got(s) == <<"getState", s>>
Resolved(a, k) == <<"resolve", a, k>>
Raised(a, e) == <<"raise", a, e>>
Cli(r) == <<"initializeTeaCli", r>>

\* line 23: the condition under which initialize() starts an attempt
StartsAttempt(s) == s = "NOT_INITIALIZED"

\* line 40: the number of the first producer invocation of an attempt
FirstAttempt == 1

\* line 46: the number of the invocation that follows invocation k
NextAttemptSkips(k) == k + 2
NextAttempt(k) == k + 1

\* line 45: whether retryFunction calls itself again after a failure
MayRetryOnceMore(k) == k <= Retries
MayRetry(k) == k < Retries

\* lines 33 and 48: the error rethrown for the error e that was caught
ThrownWrapped(e) == 0
Thrown(e) == e

\* line 27: the state the .then callback sets
ThenStateReverts == "NOT_INITIALIZED"
ThenState == "INITIALIZED"

\* line 31: the state the .catch callback sets
CatchStateStuck == "PENDING"
CatchState == "NOT_INITIALIZED"

\* line 32: the handle the .catch callback leaves, given the stored one
CatchPromiseKept(p) == p
CatchPromise(p) == 0

\* line 54: the state reset() sets
ResetStateStuck == "PENDING"
ResetState == "NOT_INITIALIZED"

\* line 55: the handle reset() leaves, given the stored one
ResetPromise(p) == 0

\* line 63: what getState() returns in state s
StateReadInitial(s) == "NOT_INITIALIZED"
StateRead(s) == s

\* lines 85-86: whether initializeTeaCli() resets, given the state read and
\* whether the binary is on disk
ShouldResetWhenAbsent(s, b) == ~b
ShouldReset(s, b) == s = "INITIALIZED" /\ ~b

Init ==
    /\ initState = "NOT_INITIALIZED"
    /\ initializationPromise = 0
    /\ nAttempts = 0
    /\ currentAttempt = [a \in Attempts |-> 0]
    /\ chained = [a \in Attempts |-> Pending]
    /\ nCalls = 0
    /\ handle = [c \in Calls |-> 0]
    /\ result = [c \in Calls |-> Pending]
    /\ resetMark = 0
    /\ owed = "none"
    /\ io = Quiet
    /\ binExists = FALSE

\* the body of initialize(), lines 23-37, run when the object holds state s
\* and handle p
Enter(s, p) ==
    /\ nCalls < MaxCalls
    /\ LET c == nCalls + 1 IN
       /\ nCalls' = c
       /\ owed' = "none"
       /\ IF StartsAttempt(s)
          THEN /\ nAttempts < MaxAttempts
               /\ LET a == nAttempts + 1 IN
                  /\ nAttempts' = a
                  /\ initState' = "PENDING"
                  /\ currentAttempt' =
                        [currentAttempt EXCEPT ![a] = FirstAttempt]
                  /\ initializationPromise' = a
                  /\ handle' = [handle EXCEPT ![c] = a]
          ELSE /\ handle' = [handle EXCEPT ![c] = p]
               /\ initState' = s
               /\ initializationPromise' = p
               /\ UNCHANGED <<nAttempts, currentAttempt>>
    /\ UNCHANGED <<chained, result, binExists>>

\* initialize(), lines 22-38
Initialize ==
    /\ Enter(initState, initializationPromise)
    /\ io' = Quiet
    /\ UNCHANGED resetMark

\* observe(), lines 58-60
Observe == Initialize

\* reset(), lines 53-56
Reset ==
    /\ initState' = ResetState
    /\ initializationPromise' = ResetPromise(initializationPromise)
    /\ resetMark' = nAttempts
    /\ owed' = IF initState = "INITIALIZED" THEN "reset" ELSE owed
    /\ io' = ResetDone
    /\ UNCHANGED <<nAttempts, currentAttempt, chained, nCalls, handle, result,
                   binExists>>

\* getState(), lines 62-64
GetState ==
    /\ io' = Got(StateRead(initState))
    /\ UNCHANGED <<initState, initializationPromise, nAttempts, currentAttempt,
                   chained, nCalls, handle, result, resetMark, owed,
                   binExists>>

\* the producer call awaited by attempt a at line 42 is outstanding
InFlightUnlessDetached(a) == currentAttempt[a] > 0 /\ a > resetMark
InFlight(a) == currentAttempt[a] > 0

\* the awaited producer call resolves with v: retryFunction returns it
\* (lines 42-43) and the .then callback runs (lines 26-29)
ProducerSucceed(a, v) ==
    /\ InFlight(a)
    /\ initState' = ThenState
    /\ chained' = [chained EXCEPT ![a] = Fulfilled(v)]
    /\ currentAttempt' = [currentAttempt EXCEPT ![a] = 0]
    /\ io' = Resolved(a, currentAttempt[a])
    /\ UNCHANGED <<initializationPromise, nAttempts, nCalls, handle, result,
                   resetMark, owed, binExists>>

\* the awaited producer call rejects with e (lines 44-49): retryFunction
\* calls the producer again at once, or rethrows e and the .catch callback
\* runs (lines 30-34)
ProducerFail(a, e) ==
    /\ InFlight(a)
    /\ io' = Raised(a, e)
    /\ IF MayRetry(currentAttempt[a])
       THEN /\ currentAttempt' = [currentAttempt EXCEPT ![a] = NextAttempt(@)]
            /\ UNCHANGED <<initState, initializationPromise, chained, owed>>
       ELSE /\ initState' = CatchState
            /\ initializationPromise' = CatchPromise(initializationPromise)
            /\ chained' = [chained EXCEPT ![a] = Rejected(Thrown(Thrown(e)))]
            /\ owed' = "failure"
            /\ currentAttempt' = [currentAttempt EXCEPT ![a] = 0]
    /\ UNCHANGED <<nAttempts, nCalls, handle, result, resetMark,
                   binExists>>

\* line 37 (and the await of line 59): the caller's promise settles as the
\* handle it was given does; `undefined` resolves at once
Deliver(c) ==
    /\ c <= nCalls
    /\ result[c] = Pending
    /\ IF handle[c] = 0
       THEN result' = [result EXCEPT ![c] = Undefined]
       ELSE /\ IsSettled(chained[handle[c]])
            /\ result' = [result EXCEPT ![c] = chained[handle[c]]]
    /\ io' = Quiet
    /\ UNCHANGED <<initState, initializationPromise, nAttempts, currentAttempt,
                   chained, nCalls, handle, resetMark, owed, binExists>>

\* initializeTeaCli(), lines 83-91: reset() when the state read is
\* INITIALIZED and the binary is not on disk, then observe(), with no await
\* in between
InitializeTeaCli ==
    LET r == ShouldReset(StateRead(initState), binExists) IN
    /\ Enter(IF r THEN ResetState ELSE initState,
             IF r THEN ResetPromise(initializationPromise)
                  ELSE initializationPromise)
    /\ resetMark' = IF r THEN nAttempts ELSE resetMark
    /\ io' = Cli(r)

\* the binary appears on disk (installTeaCli, lines 96-156) or is removed
\* from it by something outside the program
BinaryChanges ==
    /\ binExists' = ~binExists
    /\ io' = Quiet
    /\ UNCHANGED <<initState, initializationPromise, nAttempts, currentAttempt,
                   chained, nCalls, handle, result, resetMark, owed>>

Next ==
    \/ Initialize
    \/ Observe
    \/ Reset
    \/ GetState
    \/ \E a \in Attempts, v \in Values : ProducerSucceed(a, v)
    \/ \E a \in Attempts, e \in Errors : ProducerFail(a, e)
    \/ \E c \in Calls : Deliver(c)

\* InitWatcher under arbitrary callers of its four methods
Spec == Init /\ [][Next]_vars

\* every producer invocation eventually settles and every promise job runs
Fairness ==
    /\ \A a \in Attempts :
        WF_vars((\E v \in Values : ProducerSucceed(a, v))
                \/ (\E e \in Errors : ProducerFail(a, e)))
    /\ \A c \in Calls : WF_vars(Deliver(c))

LiveSpec == Spec /\ Fairness

\* cliInitializationState as this file uses it: the call of line 81,
\* initializeTeaCli() and a file system that changes
NextCli ==
    \/ Initialize
    \/ InitializeTeaCli
    \/ GetState
    \/ BinaryChanges
    \/ \E a \in Attempts, v \in Values : ProducerSucceed(a, v)
    \/ \E a \in Attempts, e \in Errors : ProducerFail(a, e)
    \/ \E c \in Calls : Deliver(c)

SpecCli == Init /\ [][NextCli]_vars

Outcomes == {Fulfilled(v) : v \in Values} \cup {Rejected(e) : e \in Errors}

TypeOK ==
    /\ initState \in InitStates
    /\ initializationPromise \in 0..MaxAttempts
    /\ nAttempts \in 0..MaxAttempts
    /\ currentAttempt \in [Attempts -> 0..(Retries + 1)]
    /\ \A a \in Attempts : chained[a] \in Outcomes \cup {Pending}
    /\ nCalls \in 0..MaxCalls
    /\ \A c \in Calls : handle[c] \in 0..MaxAttempts
    /\ \A c \in Calls : result[c] \in Outcomes \cup {Pending, Undefined}
    /\ resetMark \in 0..MaxAttempts
    /\ owed \in {"none", "failure", "reset"}
    /\ io \in {Quiet, ResetDone, Cli(TRUE), Cli(FALSE)} \cup {Got(st) : st \in InitStates}
                \cup {Raised(a, e) : a \in Attempts, e \in Errors}
                \cup {Resolved(a, k) : a \in Attempts, k \in 1..(Retries + 1)}
    /\ binExists \in BOOLEAN

\* ---- vocabulary of the properties ----

\* attempt a was started before the latest reset()
Stale(a) == a <= resetMark
\* attempt a was started after the latest reset() (or there was none)
Attached(a) == resetMark < a /\ a <= nAttempts
\* the step is a call of initialize()/observe(); the call is number nCalls'
IsCall == nCalls' = nCalls + 1
\* the step is a call of reset()
IsReset == io' \in {ResetDone, Cli(TRUE)}
\* the step settles attempt a (its .then or .catch callback runs)
Completes(a) == chained[a] = Pending /\ chained'[a] # Pending
\* the step starts a new attempt
StartsNew == nAttempts' = nAttempts + 1
Active == {a \in Attempts : InFlight(a)}

\* C1: callers that invoke initialize()/observe() while the state is
\* NOT_INITIALIZED or PENDING, with no reset() since the attempt in flight was
\* started, all join that attempt (the producer sequence is not started a
\* second time) and all callers of one attempt receive the same result.
C1_SingleFlight ==
    /\ [][(IsCall /\ initState \in {"NOT_INITIALIZED", "PENDING"}) =>
            \A a \in Attempts :
                (Attached(a) /\ chained[a] = Pending) =>
                    (~StartsNew /\ handle'[nCalls'] = a)]_vars
    /\ [](\A c, d \in Calls :
            (handle[c] # 0 /\ handle[c] = handle[d]
                /\ result[c] # Pending /\ result[d] # Pending)
            => result[c] = result[d])

\* C2: at most one producer invocation sequence is active in any state.
C2_OneActiveSequence == Cardinality(Active) <= 1

\* C3: once an attempt has succeeded and reset() has not been called since,
\* every call returns a handle carrying the cached value and starts nothing.
C3_CachedUntilReset ==
    [][IsCall =>
        \A a \in Attempts :
            (Attached(a) /\ IsFulfilled(chained[a])) =>
                /\ ~StartsNew
                /\ handle'[nCalls'] # 0
                /\ chained[handle'[nCalls']] = chained[a]]_vars

\* C4: in state INITIALIZED the stored handle is set and is fulfilled with a
\* value of the producer.
C4_InitializedHasValue ==
    initState = "INITIALIZED" =>
        /\ initializationPromise # 0
        /\ IsFulfilled(chained[initializationPromise])

\* C5: the completion of an attempt that reset() detached changes neither
\* the state nor the stored handle.
C5_StaleInvisible ==
    [][\A a \in Attempts :
        (Stale(a) /\ Completes(a)) =>
            /\ initState' = initState
            /\ initializationPromise' = initializationPromise]_vars

\* C6: an attempt fails only after 3 failed invocations, its failure leaves
\* the state NOT_INITIALIZED, and the next call after it starts a new attempt
\* whose invocation count starts again at 1.
C6_FailureThenFreshCycle ==
    [][/\ \A a \in Attempts :
            (Completes(a) /\ IsRejected(chained'[a])) =>
                (currentAttempt[a] = Retries /\ initState' = "NOT_INITIALIZED")
       /\ (owed = "failure" /\ IsCall) =>
            /\ StartsNew
            /\ handle'[nCalls'] = nAttempts'
            /\ currentAttempt'[nAttempts'] = 1]_vars

\* C7: no attempt makes more than 3 producer invocations; an attempt is
\* rejected only by the failure of its 3rd invocation; an attempt whose k-th
\* invocation succeeds is fulfilled at that invocation, after exactly k
\* invocations, and a settled attempt makes no further one.
C7_RetryBound ==
    [][\A a \in Attempts :
        /\ currentAttempt'[a] <= Retries
        /\ IsSettled(chained[a]) =>
            (currentAttempt'[a] = 0 /\ chained'[a] = chained[a])
        /\ (Completes(a) /\ IsRejected(chained'[a])) =>
            currentAttempt[a] = Retries
        /\ (Completes(a) /\ IsFulfilled(chained'[a])) =>
            /\ io' = Resolved(a, currentAttempt[a])
            /\ currentAttempt[a] \in 1..Retries
        /\ Completes(a) => currentAttempt'[a] = 0]_vars

\* the attempt just fulfilled had failed twice and succeeded on its 3rd
\* invocation
C7_Witness ==
    \E a \in Attempts : io = Resolved(a, Retries) /\ IsFulfilled(chained[a])

C10_PendingToNotInitialized ==
    [][(initState = "PENDING" /\ initState' = "NOT_INITIALIZED") =>
        /\ \/ IsReset
           \/ \E a \in Attempts :
                /\ Completes(a)
                /\ IsRejected(chained'[a])
                /\ currentAttempt[a] = Retries
        /\ \A a \in Attempts : ~(Completes(a) /\ IsFulfilled(chained'[a]))]_vars

\* with no attempt detached, the step just taken rejected the attempt in
\* flight and took the state from PENDING back to NOT_INITIALIZED
C10_Witness ==
    /\ resetMark = 0
    /\ initState = "NOT_INITIALIZED"
    /\ \E a \in Attempts :
        io[1] = "raise" /\ io[2] = a /\ IsRejected(chained[a])

\* C11: in state NOT_INITIALIZED the stored handle is unset.
C11_NotInitializedHasNoHandle ==
    initState = "NOT_INITIALIZED" => initializationPromise = 0

\* an attempt was started, so a handle was stored, and the state is
\* NOT_INITIALIZED again
C11_Witness ==
    nAttempts > 0 /\ initState = "NOT_INITIALIZED" /\ initializationPromise = 0

\* C12: reset() before any initialization has run leaves the state
\* NOT_INITIALIZED and the handle unset, and invokes no producer.
C12_ResetBeforeInitIsNoOp ==
    [][(io' = ResetDone /\ nAttempts = 0) =>
        /\ initState = "NOT_INITIALIZED" /\ initState' = "NOT_INITIALIZED"
        /\ initializationPromise = 0 /\ initializationPromise' = 0
        /\ UNCHANGED <<nAttempts, currentAttempt, chained, nCalls, handle,
                       result>>]_vars

\* reset() was just called and no initialization has run
C12_Witness == io = ResetDone /\ nAttempts = 0 /\ nCalls = 0

\* C13: getState() returns the current state and changes neither the state,
\* nor the handle, nor any attempt or call.
C13_GetStateIsPureRead ==
    [][io'[1] = "getState" =>
        /\ io'[2] = initState
        /\ UNCHANGED <<initState, initializationPromise, nAttempts,
                       currentAttempt, chained, nCalls, handle, result,
                       resetMark, owed, binExists>>]_vars

\* getState() just returned a state other than the initial one
C13_Witness == io \in {Got("PENDING"), Got("INITIALIZED")}

\* C14: the error an invocation raises rejects the attempt only when the
\* invocation is the 3rd, and then the attempt is rejected with exactly that
\* error; every caller of the attempt receives exactly the attempt's result.
C14_FinalErrorVerbatim ==
    [][/\ \A a \in Attempts, e \in Errors :
            io' = Raised(a, e) =>
                IF currentAttempt[a] = Retries
                THEN chained'[a] = Rejected(e)
                ELSE chained[a] = Pending /\ chained'[a] = Pending
       /\ \A c \in Calls :
            (result'[c] # result[c] /\ handle[c] # 0) =>
                result'[c] = chained[handle[c]]]_vars

\* a caller received the error of an attempt
C14_Witness == \E c \in Calls : IsRejected(result[c])

\* C15: the invocation number of an attempt changes only from none to 1 when
\* the attempt is started, from k to k+1 in the step in which invocation k
\* raised, and to none when the attempt settles; a fulfilled attempt never
\* has an invocation again.
C15_RetriesSequential ==
    [][\A a \in Attempts :
        /\ currentAttempt'[a] # currentAttempt[a] =>
            \/ /\ currentAttempt[a] = 0 /\ currentAttempt'[a] = 1
               /\ StartsNew /\ a = nAttempts' /\ chained[a] = Pending
            \/ /\ currentAttempt[a] > 0
               /\ currentAttempt'[a] = currentAttempt[a] + 1
               /\ \E e \in Errors : io' = Raised(a, e)
            \/ currentAttempt'[a] = 0 /\ Completes(a)
        /\ IsFulfilled(chained[a]) => currentAttempt'[a] = 0]_vars

\* the 3rd invocation of an attempt is outstanding, right after the 2nd raised
C15_Witness ==
    \E a \in Attempts : currentAttempt[a] = Retries /\ io[1] = "raise" /\ io[2] = a

\* C16: when no attempt was detached by reset(), once a caller has observed
\* the rejection of its attempt the object no longer holds that attempt (the
\* state is NOT_INITIALIZED or a newer attempt is stored), and every later
\* call receives an attempt newer than the failed one.
C16_FailureResetsBeforeCallersSee ==
    /\ [](resetMark = 0 =>
            \A c \in Calls :
                IsRejected(result[c]) =>
                    \/ initState = "NOT_INITIALIZED" /\ initializationPromise = 0
                    \/ initializationPromise > handle[c])
    /\ [][(resetMark' = 0 /\ IsCall) =>
            \A c \in Calls :
                IsRejected(result[c]) => handle'[nCalls'] > handle[c]]_vars

\* a caller observed a rejection and the latest call, made after it, holds a
\* newer attempt
C16_Witness ==
    /\ resetMark = 0
    /\ \E c \in Calls :
        /\ c < nCalls
        /\ IsRejected(result[c])
        /\ handle[nCalls] > handle[c]
        /\ result[nCalls] = Pending

\* C17: initializeTeaCli() resets exactly when the state is INITIALIZED and
\* the binary is absent, and then starts a new attempt; otherwise it acts as
\* observe() alone does.
C17_TeaCliResetsWhenBinaryGone ==
    [][io'[1] = "initializeTeaCli" =>
        /\ io'[2] = (initState = "INITIALIZED" /\ ~binExists)
        /\ StartsNew = (initState = "NOT_INITIALIZED"
                        \/ (initState = "INITIALIZED" /\ ~binExists))
        /\ IF StartsNew
           THEN /\ handle'[nCalls'] = nAttempts'
                /\ initState' = "PENDING"
                /\ currentAttempt'[nAttempts'] = 1
           ELSE /\ handle'[nCalls'] = initializationPromise
                /\ UNCHANGED <<initState, initializationPromise, resetMark>>
        /\ resetMark' = IF io'[2] THEN nAttempts ELSE resetMark]_vars

\* initializeTeaCli() just reset an INITIALIZED object and started an attempt
C17_Witness == io = Cli(TRUE) /\ initState = "PENDING" /\ nAttempts > 1

\* C18: every call of initialize()/observe() eventually settles.
C18_EveryCallSettles ==
    \A c \in Calls : (nCalls >= c) ~> (result[c] # Pending)

\* a call settled although reset() had discarded the handle it holds
C18_Witness ==
    \E c \in Calls :
        result[c] # Pending /\ handle[c] # 0 /\ handle[c] <= resetMark
====
